---- MODULE Spec2Model ----
(***************************************************************************)
(* Nature Remo integration: the config flow, the API client, the refresh   *)
(* coordinator and the climate entity (NatureRemoAC).                      *)
(*                                                                         *)
(* Temperatures as numbers are held in tenths of a degree (25.5 -> 255);   *)
(* temperatures on the wire are strings, as in the vendor's JSON.          *)
(* A JSON object is a record; its keys are DOMAIN of the record.           *)
(* An optional number is a set with no or one element (None == {}).        *)
(***************************************************************************)
EXTENDS Integers, FiniteSets, Sequences, TLC

VARIABLES
    phase,      \* "flow" while the config flow runs, "running" once set up
    flow,       \* the result of the last ConfigFlow.async_step_user
    remote,     \* the vendor cloud: appliances' settings and the device
    data,       \* coordinator.data, the cached snapshot
    ent,        \* the NatureRemoAC entities' fields, per appliance id
    listeners,  \* the coordinator's registered listeners
    added,      \* entities on which async_added_to_hass has run
    refresh,    \* the refresh in flight, if any
    got,        \* what each caller of requestRefresh last received
    invoked,    \* per entity: listener invocations in the current refresh
    pending,    \* per entity: the command awaiting its POST
    cmdResult,  \* per entity: how its last command ended
    hist,       \* history per entity: the last settings object given to _update, and
                \* per mode the last temperature a settings object reported in it
    nops,       \* commands, refreshes and remote changes begun so far
    ac,         \* an AC entity's _modes and _remo_mode, for its temperature range
    props       \* the min_temp, max_temp and target_temperature_step last read of it

vars == <<phase, flow, remote, data, ent, listeners, added, refresh, got,
          invoked, pending, cmdResult, hist, nops, ac, props>>

---------------------------------------------------------------------------
(* Bounds of the model *)

MaxOps == 2
MaxRangeLen == 3

---------------------------------------------------------------------------
(* const.py *)

DEFAULT_COOL_TEMP == 28
DEFAULT_HEAT_TEMP == 20

---------------------------------------------------------------------------
(* climate.py: the mode tables *)

MODE_HA_TO_REMO ==
    [auto |-> "auto", fan_only |-> "blow", cool |-> "cool", dry |-> "dry",
     heat |-> "warm", off |-> "power-off"]

MODE_REMO_TO_HA ==
    [x \in {"auto", "blow", "cool", "dry", "warm", "power-off"} |->
        CASE x = "auto" -> "auto"
          [] x = "blow" -> "fan_only"
          [] x = "cool" -> "cool"
          [] x = "dry" -> "dry"
          [] x = "warm" -> "heat"
          [] x = "power-off" -> "off"]

NONE == "None"

---------------------------------------------------------------------------
(* Conversions between numbers and their text *)

\* Python float(s) on the temperature strings of the model, in tenths;
\* {} stands for ValueError (the empty string and every other text).
ParseFloat(s) ==
    CASE s = "20" -> {200}
      [] s = "25" -> {250}
      [] s = "26.5" -> {265}
      [] s = "28" -> {280}
      [] OTHER -> {}

\* f"{target_temp}" after the is_integer() cast of async_set_temperature.
FormatTemp(t) ==
    CASE t = 250 -> "25"
      [] t = 265 -> "26.5"

\* The form encoding of an int default temperature by requests.
FormInt(n) ==
    CASE n = 28 -> "28"
      [] n = 20 -> "20"

---------------------------------------------------------------------------
(* The installation: two air conditioners behind one Remo device *)

Appliances == {"a1", "a2"}
DeviceId == "d1"
Timer == "timer"
Callers == Appliances \cup {Timer}

SettingsKeys == {"mode", "temp", "vol", "dir", "button"}

\* The settings an appliance may have when the integration is set up.
OffSettings ==
    [mode |-> "blow", temp |-> "", vol |-> "", dir |-> "", button |-> "power-off"]
InitSettings ==
    { [mode |-> "cool", temp |-> "25", vol |-> "auto", dir |-> "", button |-> ""],
      OffSettings }

\* A record restricted to some of its keys.
Restrict(r, keys) == [k \in (DOMAIN r) \cap keys |-> r[k]]

\* Python dict assignment d[k] = v.
DictSet(d, k, v) == [x \in (DOMAIN d) \cup {k} |-> IF x = k THEN v ELSE d[x]]

\* The device object of the vendor API at firmware fw.
DeviceRecord(fw) ==
    [id |-> DeviceId, name |-> "Remo", serial_number |-> "S1",
     firmware_version |-> fw, newest_events |-> [te |-> 225]]

\* The appliance object of the vendor API.
ApplianceRecord(a, settings, fw) ==
    [id |-> a, nickname |-> a, type |-> "AC", device |-> DeviceRecord(fw),
     settings |-> settings]

---------------------------------------------------------------------------
(* nature_remo_api.py *)

NetOutcomes == {"ok", "error_body", "transport"}

\* NatureRemoAPI.authenticate_check: requests.get raises on a transport
\* failure; a status other than 200 returns False; the body of a 200 is then
\* parsed, which raises when it is no list of objects with an id.
authenticate_check(out) ==
    CASE out = "transport" -> [raised |-> TRUE, value |-> FALSE]
      [] out = "non200" -> [raised |-> FALSE, value |-> FALSE]
      [] out = "bad_json" -> [raised |-> TRUE, value |-> FALSE]
      [] out = "ok" -> [raised |-> FALSE, value |-> TRUE]

get_Partial(rm, appOut, devOut) ==
    IF appOut # "ok"
    THEN [ok |-> FALSE]
    ELSE [ok |-> TRUE,
          appliances |->
              [a \in {x \in Appliances : rm.appliances[x].present} |->
                  ApplianceRecord(a, rm.appliances[a].settings, rm.fw)],
          devices |-> IF devOut = "ok"
                      THEN [d \in {DeviceId} |-> DeviceRecord(rm.fw)]
                      ELSE [d \in {} |-> DeviceRecord(rm.fw)]]

\* NatureRemoAPI.get: two GETs; a transport failure raises, and an error body
\* (an object, not a list) makes the dict comprehension raise. Only when both
\* lists arrive is a snapshot returned.
get(rm, appOut, devOut) ==
    IF appOut # "ok" \/ devOut # "ok"
    THEN [ok |-> FALSE]
    ELSE [ok |-> TRUE,
          appliances |->
              [a \in {x \in Appliances : rm.appliances[x].present} |->
                  ApplianceRecord(a, rm.appliances[a].settings, rm.fw)],
          devices |-> [d \in {DeviceId} |-> DeviceRecord(rm.fw)]]

\* The vendor's handling of POST /appliances/{id}/aircon_settings: the
\* settings after the form body is applied.
ServerApply(s, body) ==
    LET s1 == IF "operation_mode" \in DOMAIN body
              THEN [s EXCEPT !.mode = body.operation_mode, !.button = "",
                             !.temp = ""]
              ELSE s
        s2 == IF "temperature" \in DOMAIN body
              THEN [s1 EXCEPT !.temp = body.temperature] ELSE s1
        s3 == IF "button" \in DOMAIN body
              THEN [s2 EXCEPT !.button = body.button] ELSE s2
        s4 == IF "air_volume" \in DOMAIN body
              THEN [s3 EXCEPT !.vol = body.air_volume] ELSE s3
    IN  IF "air_direction" \in DOMAIN body
        THEN [s4 EXCEPT !.dir = body.air_direction] ELSE s4

PostOutcomes == {"ok", "transport", "error_body", "partial"}

\* NatureRemoAPI.post: requests.post raises on a transport failure; otherwise
\* the JSON body is returned whatever the status: the settings object, an
\* error object, or an object with only some of the settings' keys.
post(s, body, out) ==
    CASE out = "transport" -> [raised |-> TRUE, json |-> [code |-> "0"]]
      [] out = "error_body" ->
            [raised |-> FALSE, json |-> [code |-> "401001", message |-> "Unauthorized"]]
      [] out = "partial" ->
            [raised |-> FALSE, json |-> Restrict(ServerApply(s, body), {"mode", "temp"})]
      [] out = "ok" -> [raised |-> FALSE, json |-> ServerApply(s, body)]

---------------------------------------------------------------------------
(* climate.py: NatureRemoAC *)

NoDevice == [absent |-> TRUE]

_update_SwapFanSwing(self, ac_settings, device) ==
    IF SettingsKeys \subseteq DOMAIN ac_settings
    THEN [raised |-> FALSE,
          self |-> [self EXCEPT
              !.remo_mode = ac_settings.mode,
              !.target_temperature = ParseFloat(ac_settings.temp),
              !.hvac_mode = IF ac_settings.button = "power-off" THEN "off"
                            ELSE MODE_REMO_TO_HA[ac_settings.mode],
              !.fan_mode = IF ac_settings.dir = "" THEN NONE ELSE ac_settings.dir,
              !.swing_mode = IF ac_settings.vol = "" THEN NONE ELSE ac_settings.vol]]
    ELSE [raised |-> TRUE, self |-> self]

\* NatureRemoAC._update, statement by statement; a KeyError that is not
\* caught leaves the assignments made before it in place.
_update(self, ac_settings, device) ==
    LET keys == DOMAIN ac_settings
        e1 == [self EXCEPT !.remo_mode = ac_settings.mode]
        e2 == IF "temp" \notin keys
              THEN [e1 EXCEPT !.target_temperature = {}]
              ELSE IF ParseFloat(ac_settings.temp) = {}
              THEN [e1 EXCEPT !.target_temperature = {}]
              ELSE [e1 EXCEPT
                      !.target_temperature = ParseFloat(ac_settings.temp),
                      !.last_target_temperature =
                          DictSet(@, e1.remo_mode, ac_settings.temp)]
        e3 == IF ac_settings.button = MODE_HA_TO_REMO.off
              THEN [e2 EXCEPT !.hvac_mode = "off"]
              ELSE [e2 EXCEPT !.hvac_mode = MODE_REMO_TO_HA[e2.remo_mode]]
        e4 == [e3 EXCEPT !.fan_mode =
                            IF ac_settings.vol = "" THEN NONE ELSE ac_settings.vol]
        e5 == [e4 EXCEPT !.swing_mode =
                            IF ac_settings.dir = "" THEN NONE ELSE ac_settings.dir]
        e6 == IF "absent" \in DOMAIN device THEN e5
              ELSE IF "te" \in DOMAIN device.newest_events
              THEN [e5 EXCEPT !.current_temperature = {device.newest_events.te}]
              ELSE e5
    IN  IF "mode" \notin keys THEN [raised |-> TRUE, self |-> self]
        ELSE IF "button" \notin keys THEN [raised |-> TRUE, self |-> e2]
        ELSE IF ac_settings.button # MODE_HA_TO_REMO.off
                /\ e2.remo_mode \notin DOMAIN MODE_REMO_TO_HA
        THEN [raised |-> TRUE, self |-> e2]
        ELSE IF "vol" \notin keys THEN [raised |-> TRUE, self |-> e3]
        ELSE IF "dir" \notin keys THEN [raised |-> TRUE, self |-> e4]
        ELSE [raised |-> FALSE, self |-> e6]

\* NatureRemoBase.__init__ and NatureRemoAC.__init__: the fields before the
\* first _update, which __init__ then runs on the appliance's settings.
NewEntity(appliance) ==
    _update([appliance_id |-> appliance.id,
             name |-> appliance.nickname,
             device |-> appliance.device,
             hvac_mode |-> NONE,
             current_temperature |-> {},
             target_temperature |-> {},
             remo_mode |-> NONE,
             fan_mode |-> NONE,
             swing_mode |-> NONE,
             last_target_temperature |-> [m \in DOMAIN MODE_REMO_TO_HA |-> NONE]],
            appliance.settings, NoDevice).self

\* The temperature default of NatureRemoAC._default_temp, if the mode has one.
DefaultTemp(hvac_mode) ==
    CASE hvac_mode = "cool" -> {DEFAULT_COOL_TEMP}
      [] hvac_mode = "heat" -> {DEFAULT_HEAT_TEMP}
      [] OTHER -> {}

HvacData_DefaultFirst(self, hvac_mode) ==
    LET mode == MODE_HA_TO_REMO[hvac_mode]
    IN  IF mode = MODE_HA_TO_REMO.off THEN [button |-> mode]
        ELSE IF DefaultTemp(hvac_mode) # {}
        THEN [operation_mode |-> mode,
              temperature |-> FormInt(CHOOSE t \in DefaultTemp(hvac_mode) : TRUE)]
        ELSE IF self.last_target_temperature[mode] \notin {NONE, ""}
        THEN [operation_mode |-> mode,
              temperature |-> self.last_target_temperature[mode]]
        ELSE [operation_mode |-> mode]

\* The form body NatureRemoAC.async_set_hvac_mode posts.
HvacData(self, hvac_mode) ==
    LET mode == MODE_HA_TO_REMO[hvac_mode]
    IN  IF mode = MODE_HA_TO_REMO.off THEN [button |-> mode]
        ELSE IF self.last_target_temperature[mode] \notin {NONE, ""}
        THEN [operation_mode |-> mode,
              temperature |-> self.last_target_temperature[mode]]
        ELSE IF DefaultTemp(hvac_mode) # {}
        THEN [operation_mode |-> mode,
              temperature |-> FormInt(CHOOSE t \in DefaultTemp(hvac_mode) : TRUE)]
        ELSE [operation_mode |-> mode]

\* The commands the model issues: kind and argument.
TempInputs == {250, 265}
HvacInputs == {"cool", "heat", "fan_only", "off"}
Commands ==
    [kind : {"temperature"}, arg : TempInputs]
    \cup [kind : {"hvac_mode"}, arg : HvacInputs]
    \cup [kind : {"fan_mode"}, arg : {"auto"}]
    \cup [kind : {"swing_mode"}, arg : {"swing"}]

\* The form body of each command: async_set_temperature, async_set_hvac_mode,
\* async_set_fan_mode, async_set_swing_mode.
CommandData(self, cmd) ==
    CASE cmd.kind = "temperature" -> [temperature |-> FormatTemp(cmd.arg)]
      [] cmd.kind = "hvac_mode" -> HvacData(self, cmd.arg)
      [] cmd.kind = "fan_mode" -> [air_volume |-> cmd.arg]
      [] cmd.kind = "swing_mode" -> [air_direction |-> cmd.arg]

\* NatureRemoAC._update_callback: both lookups into coordinator.data are
\* evaluated before _update runs; a missing id raises KeyError.
_update_callback(self, cache) ==
    IF self.appliance_id \notin DOMAIN cache.appliances
    THEN [raised |-> TRUE, self |-> self]
    ELSE IF self.device.id \notin DOMAIN cache.devices
    THEN [raised |-> TRUE, self |-> self]
    ELSE _update(self, cache.appliances[self.appliance_id].settings,
                 cache.devices[self.device.id])

\* The device info of a device object.
DeviceInfoOf(device) ==
    [identifiers |-> device.id, name |-> device.name,
     model |-> device.serial_number, sw_version |-> device.firmware_version]

\* NatureRemoBase.device_info, read from the entity's own _device.
device_info(self) == DeviceInfoOf(self.device)

AddedToHassListeners_None(ls, e) == ls

\* NatureRemoAC.async_added_to_hass: _update_callback becomes a listener of
\* the coordinator.
AddedToHassListeners(ls, e) == ls \cup {e}

---------------------------------------------------------------------------
(* config_flow.py *)

AuthOutcomes == {"ok", "non200", "bad_json", "transport"}

\* validate_input: the exception it ends with, "none" when it returns.
validate_input(out) ==
    LET r == authenticate_check(out)
    IN  IF r.raised THEN "RequestException"
        ELSE IF ~r.value THEN "InvalidAuth"
        ELSE "none"

\* ConfigFlow.async_step_user with user input: the except clauses in order.
StepUserResult(out) ==
    LET exc == validate_input(out)
    IN  CASE exc = "CannotConnect" ->
               [errors |-> "cannot_connect", entry |-> FALSE, form |-> TRUE, net |-> out]
          [] exc = "InvalidAuth" ->
               [errors |-> "invalid_auth", entry |-> FALSE, form |-> TRUE, net |-> out]
          [] exc = "none" ->
               [errors |-> "", entry |-> TRUE, form |-> FALSE, net |-> out]
          [] OTHER ->
               [errors |-> "unknown", entry |-> FALSE, form |-> TRUE, net |-> out]

---------------------------------------------------------------------------
(* climate.py: the temperature range of the active mode.  The range's      *)
(* numbers are held in hundredths of a degree (16.54 -> 1654, step 0.5 ->  *)
(* 50, step 1 -> 100), so that rounding to one decimal is not the identity. *)

\* The entries a mode's "temp" list may hold; "" is the falsy entry.
RangeEntries == {"", "16", "16.5", "16.54", "17", "18"}

\* Python float(s) on the entries, in hundredths.
Float100(s) ==
    CASE s = "16" -> 1600
      [] s = "16.5" -> 1650
      [] s = "16.54" -> 1654
      [] s = "17" -> 1700
      [] s = "18" -> 1800

\* Python round(x, 1) on hundredths (no difference of two entries is a tie).
Round1(x) == ((x + 5) \div 10) * 10

\* appliance["aircon"]["range"]["modes"]: cool with the given list; blow has
\* no temperatures, which the vendor sends as [""].
RangeModes(temps) ==
    [cool |-> [temp |-> temps, vol |-> <<"auto">>, dir |-> <<"swing">>],
     blow |-> [temp |-> <<"">>, vol |-> <<"auto">>, dir |-> <<"swing">>]]

\* filter(None, temp_range).
FilterNone(temp_range) == SelectSeq(temp_range, LAMBDA x : x # "")

\* NatureRemoAC._current_mode_temp_range.
_current_mode_temp_range(self) ==
    LET kept == FilterNone(self.modes[self.remo_mode].temp)
    IN  [i \in 1..Len(kept) |-> Float100(kept[i])]

\* Python min() and max() of a non-empty list.
RECURSIVE SeqMin(_)
SeqMin(l) ==
    IF Len(l) = 1 THEN l[1]
    ELSE LET m == SeqMin(Tail(l)) IN IF l[1] <= m THEN l[1] ELSE m

RECURSIVE SeqMax(_)
SeqMax(l) ==
    IF Len(l) = 1 THEN l[1]
    ELSE LET m == SeqMax(Tail(l)) IN IF l[1] >= m THEN l[1] ELSE m

\* NatureRemoAC.min_temp.
min_temp(self) ==
    LET temp_range == _current_mode_temp_range(self)
    IN  IF Len(temp_range) = 0 THEN 0 ELSE SeqMin(temp_range)

\* NatureRemoAC.max_temp.
max_temp(self) ==
    LET temp_range == _current_mode_temp_range(self)
    IN  IF Len(temp_range) = 0 THEN 0 ELSE SeqMax(temp_range)

target_temperature_step_AnyGap(self) ==
    LET temp_range == _current_mode_temp_range(self)
    IN  IF Len(temp_range) >= 2
        THEN Round1(temp_range[2] - temp_range[1])
        ELSE 100

\* NatureRemoAC.target_temperature_step.
target_temperature_step(self) ==
    LET temp_range == _current_mode_temp_range(self)
        step == Round1(temp_range[2] - temp_range[1])
    IN  IF Len(temp_range) >= 2
        THEN IF step \in {100, 50} THEN step ELSE 100
        ELSE 100

---------------------------------------------------------------------------
(* The state after construction: the config flow, before any input *)

NoPending == [kind |-> "none"]
NoResult == [kind |-> "none"]
NoRefresh ==
    [inflight |-> FALSE, awaiting |-> {}, fetched |-> NoResult,
     net |-> <<TRUE, TRUE>>, nfetch |-> 0, regAtStart |-> {}]
EmptyCache == [appliances |-> <<>>, devices |-> <<>>]

\* The program's state when the config flow starts.
InitFlow ==
    /\ phase = "flow"
    /\ flow = [errors |-> "", entry |-> FALSE, form |-> TRUE, net |-> "none"]
    /\ remote \in {[appliances |-> [a \in Appliances |->
                        [present |-> TRUE,
                         settings |-> IF a = "a1" THEN s1 ELSE OffSettings]],
                    fw |-> 1] : s1 \in InitSettings}
    /\ data = EmptyCache
    /\ ent = <<>>
    /\ listeners = {}
    /\ added = {}
    /\ refresh = NoRefresh
    /\ got = [c \in Callers |-> NoResult]
    /\ invoked = [a \in Appliances |-> 0]
    /\ pending = [a \in Appliances |-> NoPending]
    /\ cmdResult = [a \in Appliances |-> "none"]
    /\ hist = [a \in Appliances |->
                 [applied |-> <<>>,
                  remembered |-> [m \in DOMAIN MODE_REMO_TO_HA |-> NONE]]]
    /\ nops = 0

NoRead == [kind |-> "none"]

Init ==
    /\ InitFlow
    /\ ac = [modes |-> RangeModes(<<"16", "17", "18">>), remo_mode |-> "cool"]
    /\ props = NoRead

\* History: s is given to _update, which applies it from its mode on; the
\* temperature s reports for its mode.
Remember(h, s) ==
    [applied |-> IF "mode" \in DOMAIN s THEN s ELSE h.applied,
     remembered |->
        IF "mode" \in DOMAIN s /\ "temp" \in DOMAIN s
        THEN IF s.temp \in {"20", "25", "26.5", "28"}
             THEN DictSet(h.remembered, s.mode, s.temp)
             ELSE h.remembered
        ELSE h.remembered]

---------------------------------------------------------------------------
(* Actions *)

\* ConfigFlow.async_step_user(user_input): the auth check ends as `out`.
async_step_user(out) ==
    /\ phase = "flow"
    /\ ~flow.entry
    /\ flow' = StepUserResult(out)
    /\ UNCHANGED <<phase, remote, data, ent, listeners, added, refresh, got,
                   invoked, pending, cmdResult, hist, nops>>
    /\ UNCHANGED <<ac, props>>

\* Integration setup after the entry is created: the coordinator's first
\* refresh, then async_setup_entry builds one NatureRemoAC per AC appliance.
Setup ==
    /\ phase = "flow"
    /\ flow.entry
    /\ phase' = "running"
    /\ LET snap == get(remote, "ok", "ok")
       IN  /\ data' = [appliances |-> snap.appliances, devices |-> snap.devices]
           /\ ent' = [a \in DOMAIN snap.appliances |-> NewEntity(snap.appliances[a])]
           /\ hist' = [a \in Appliances |-> Remember(hist[a], snap.appliances[a].settings)]
    /\ UNCHANGED <<flow, remote, listeners, added, refresh, got, invoked,
                   pending, cmdResult, nops>>
    /\ UNCHANGED <<ac, props>>

\* NatureRemoAC.async_added_to_hass.
async_added_to_hass(e) ==
    /\ phase = "running"
    /\ e \notin added
    /\ listeners' = AddedToHassListeners(listeners, e)
    /\ added' = added \cup {e}
    /\ UNCHANGED <<phase, flow, remote, data, ent, refresh, got, invoked,
                   pending, cmdResult, hist, nops>>
    /\ UNCHANGED <<ac, props>>

\* A command is called on entity e: the form body is built from the entity's
\* fields and posted; the vendor answers as `out`.
CommandCall(e, cmd, out) ==
    /\ phase = "running"
    /\ e \in added
    /\ pending[e] = NoPending
    /\ nops < MaxOps
    /\ remote.appliances[e].present \/ out \in {"transport", "error_body"}
    /\ LET body == CommandData(ent[e], cmd)
           resp == post(remote.appliances[e].settings, body, out)
       IN  /\ pending' = [pending EXCEPT
                  ![e] = [kind |-> "posted", cmd |-> cmd, body |-> body, resp |-> resp]]
           /\ remote' = IF out \in {"ok", "partial"}
                        THEN [remote EXCEPT !.appliances[e].settings =
                                  ServerApply(@, body)]
                        ELSE remote
    /\ cmdResult' = [cmdResult EXCEPT ![e] = "none"]
    /\ nops' = nops + 1
    /\ UNCHANGED <<phase, flow, data, ent, listeners, added, refresh, got,
                   invoked, hist>>
    /\ UNCHANGED <<ac, props>>

\* The executor job of the command returns: an exception of post propagates;
\* otherwise _update(response) runs, and an exception of it propagates
\* (NatureRemoAC._post, async_set_temperature, async_set_fan_mode).
CommandReturn(e) ==
    /\ pending[e] # NoPending
    /\ LET resp == pending[e].resp
           u == _update(ent[e], resp.json, NoDevice)
       IN  IF resp.raised
           THEN /\ cmdResult' = [cmdResult EXCEPT ![e] = "raised"]
                /\ UNCHANGED <<ent, hist>>
           ELSE /\ ent' = [ent EXCEPT ![e] = u.self]
                /\ hist' = [hist EXCEPT ![e] = Remember(@, resp.json)]
                /\ cmdResult' = [cmdResult EXCEPT
                       ![e] = IF u.raised THEN "raised" ELSE "ok"]
    /\ pending' = [pending EXCEPT ![e] = NoPending]
    /\ UNCHANGED <<phase, flow, remote, data, listeners, added, refresh, got,
                   invoked, nops>>
    /\ UNCHANGED <<ac, props>>

\* requestRefresh() by caller c: joins the refresh in flight, or starts one.
RequestRefresh(c) ==
    /\ phase = "running"
    /\ IF refresh.inflight
       THEN /\ c \notin refresh.awaiting
            /\ refresh' = [refresh EXCEPT !.awaiting = @ \cup {c},
                                          !.regAtStart = added]
            /\ got' = [got EXCEPT ![c] = NoResult]
            /\ UNCHANGED <<invoked, nops>>
       ELSE /\ nops < MaxOps
            /\ refresh' = [inflight |-> TRUE, awaiting |-> {c}, fetched |-> NoResult,
                           net |-> <<TRUE, TRUE>>, nfetch |-> 0, regAtStart |-> added]
            /\ got' = [x \in Callers |-> NoResult]
            /\ invoked' = [a \in Appliances |-> 0]
            /\ nops' = nops + 1
    /\ UNCHANGED <<phase, flow, remote, data, ent, listeners, added, pending,
                   cmdResult, hist>>
    /\ UNCHANGED <<ac, props>>

async_update_Direct(e) ==
    /\ e \in added
    /\ refresh.inflight
    /\ refresh' = [refresh EXCEPT !.nfetch = @ + 1]
    /\ UNCHANGED <<phase, flow, remote, data, ent, listeners, added, pending,
                   cmdResult, hist, got, invoked, nops>>
    /\ UNCHANGED <<ac, props>>

\* NatureRemoAC.async_update: the entity asks the coordinator for a refresh.
async_update(e) ==
    /\ e \in added
    /\ RequestRefresh(e)

\* The scheduled refresh of the coordinator.
TimerTick == RequestRefresh(Timer)

\* The refresh in flight performs its fetch: NatureRemoAPI.get, whose two
\* GETs end as appOut and devOut.
Fetch(appOut, devOut) ==
    /\ refresh.inflight
    /\ refresh.fetched = NoResult
    /\ refresh' = [refresh EXCEPT
           !.fetched = [kind |-> "fetched", result |-> get(remote, appOut, devOut)],
           !.net = <<appOut = "ok", devOut = "ok">>,
           !.nfetch = @ + 1]
    /\ UNCHANGED <<phase, flow, remote, data, ent, listeners, added, got,
                   invoked, pending, cmdResult, hist, nops>>
    /\ UNCHANGED <<ac, props>>

\* The refresh completes. On success the cache is replaced, every listener
\* is invoked, and then the callers receive the snapshot; on failure the
\* cache is left alone and the callers receive the failure.
Complete ==
    /\ refresh.inflight
    /\ refresh.fetched # NoResult
    /\ LET r == refresh.fetched.result
           cache == [appliances |-> r.appliances, devices |-> r.devices]
       IN  IF r.ok
           THEN /\ data' = cache
                /\ ent' = [a \in DOMAIN ent |->
                             IF a \in listeners
                             THEN _update_callback(ent[a], cache).self
                             ELSE ent[a]]
                /\ hist' = [a \in Appliances |->
                             IF a \in listeners
                                /\ ~_update_callback(ent[a], cache).raised
                             THEN Remember(hist[a], r.appliances[a].settings)
                             ELSE hist[a]]
                /\ invoked' = [a \in Appliances |->
                                 IF a \in listeners THEN invoked[a] + 1 ELSE invoked[a]]
                /\ got' = [c \in Callers |->
                             IF c \in refresh.awaiting
                             THEN [kind |-> "state", state |-> cache] ELSE got[c]]
           ELSE /\ got' = [c \in Callers |->
                             IF c \in refresh.awaiting
                             THEN [kind |-> "RefreshError"] ELSE got[c]]
                /\ UNCHANGED <<data, ent, hist, invoked>>
    /\ refresh' = [refresh EXCEPT !.inflight = FALSE]
    /\ UNCHANGED <<phase, flow, remote, listeners, added, pending, cmdResult,
                   nops>>
    /\ UNCHANGED <<ac, props>>

\* The appliance is removed in the vendor's cloud.
RemoteRemove(a) ==
    /\ phase = "running"
    /\ nops < MaxOps
    /\ remote.appliances[a].present
    /\ remote' = [remote EXCEPT !.appliances[a].present = FALSE]
    /\ nops' = nops + 1
    /\ UNCHANGED <<phase, flow, data, ent, listeners, added, refresh, got,
                   invoked, pending, cmdResult, hist>>
    /\ UNCHANGED <<ac, props>>

\* The Remo device receives a firmware update.
RemoteFirmware ==
    /\ phase = "running"
    /\ nops < MaxOps
    /\ remote' = [remote EXCEPT !.fw = @ + 1]
    /\ nops' = nops + 1
    /\ UNCHANGED <<phase, flow, data, ent, listeners, added, refresh, got,
                   invoked, pending, cmdResult, hist>>
    /\ UNCHANGED <<ac, props>>

Next ==
    \/ \E out \in AuthOutcomes : async_step_user(out)
    \/ Setup
    \/ \E e \in Appliances : async_added_to_hass(e)
    \/ \E e \in Appliances, cmd \in Commands, out \in PostOutcomes :
           CommandCall(e, cmd, out)
    \/ \E e \in Appliances : CommandReturn(e)
    \/ \E e \in Appliances : async_update(e)
    \/ TimerTick
    \/ \E appOut \in NetOutcomes, devOut \in NetOutcomes : Fetch(appOut, devOut)
    \/ Complete
    \/ \E a \in Appliances : RemoteRemove(a)
    \/ RemoteFirmware

Spec == Init /\ [][Next]_vars

---------------------------------------------------------------------------
(* The temperature range of an AC entity over the lists a mode may hold *)

RECURSIVE RangeLists(_)
RangeLists(n) ==
    IF n = 0 THEN {<<>>}
    ELSE RangeLists(n - 1)
         \cup {Append(l, x) : l \in {k \in RangeLists(n - 1) : Len(k) = n - 1},
                              x \in RangeEntries}

\* NatureRemoAC.__init__ on an appliance whose cool mode holds any list.
InitRange ==
    /\ InitFlow
    /\ ac \in {[modes |-> RangeModes(l), remo_mode |-> m] :
                  l \in RangeLists(MaxRangeLen), m \in {"cool", "blow"}}
    /\ props = NoRead

\* _update stores the mode of the settings it is given.
RangeUpdate(m) ==
    /\ m \in DOMAIN ac.modes
    /\ m # ac.remo_mode
    /\ ac' = [ac EXCEPT !.remo_mode = m]
    /\ UNCHANGED <<phase, flow, remote, data, ent, listeners, added, refresh,
                   got, invoked, pending, cmdResult, hist, nops, props>>

\* The properties min_temp, max_temp and target_temperature_step are read.
ReadRange ==
    /\ props' = [kind |-> "read", mode |-> ac.remo_mode,
                 min_temp |-> min_temp(ac), max_temp |-> max_temp(ac),
                 step |-> target_temperature_step(ac)]
    /\ UNCHANGED <<phase, flow, remote, data, ent, listeners, added, refresh,
                   got, invoked, pending, cmdResult, hist, nops, ac>>

NextRange ==
    \/ \E m \in {"cool", "blow"} : RangeUpdate(m)
    \/ ReadRange

SpecRange == InitRange /\ [][NextRange]_vars

---------------------------------------------------------------------------
(* Claims *)

\* The refresh that last completed, if any, and how it ended.
Completed == ~refresh.inflight /\ refresh.fetched # NoResult
Forced == refresh.awaiting \cap Appliances

\* C1: while a refresh is in flight, calls of requestRefresh join it: the
\* in-flight period performs exactly one fetch (NatureRemoAPI.get), and all
\* the callers that joined receive the same State or the same failure.
C1_SingleFlight ==
    /\ refresh.nfetch <= 1
    /\ Completed =>
          /\ refresh.nfetch = 1
          /\ \A c \in refresh.awaiting : got[c] # NoResult
          /\ \A c1, c2 \in refresh.awaiting : got[c1] = got[c2]

C1_Witness ==
    /\ Completed
    /\ Cardinality(refresh.awaiting) >= 2
    /\ Forced # {}
    /\ \A c \in refresh.awaiting : got[c].kind = "state"

\* A command of e returns in this step.
Returns(e) == pending[e] # NoPending /\ pending'[e] = NoPending

\* The response of e's pending command is a settings object.
ValidResponse(e) ==
    /\ ~pending[e].resp.raised
    /\ SettingsKeys \subseteq DOMAIN pending[e].resp.json

\* C2: when a command of appliance A succeeds, A's entity shows exactly the
\* values of the command's response (mode, target temperature, fan, swing,
\* hvac state), and what is held for every other appliance is unchanged.
C2_CommandMerge ==
    [][\A e \in Appliances :
          (Returns(e) /\ ValidResponse(e)) =>
              LET r == pending[e].resp.json
              IN  /\ cmdResult'[e] = "ok"
                  /\ ent'[e].remo_mode = r.mode
                  /\ ent'[e].target_temperature = ParseFloat(r.temp)
                  /\ ent'[e].fan_mode = (IF r.vol = "" THEN NONE ELSE r.vol)
                  /\ ent'[e].swing_mode = (IF r.dir = "" THEN NONE ELSE r.dir)
                  /\ ent'[e].hvac_mode =
                        (IF r.button = "power-off" THEN "off"
                         ELSE MODE_REMO_TO_HA[r.mode])
                  /\ \A b \in Appliances \ {e} : ent'[b] = ent[b]
                  /\ data' = data]_vars

C2_Witness ==
    \E e \in Appliances :
        /\ cmdResult[e] = "ok"
        /\ pending[e] = NoPending
        /\ ent[e].fan_mode = "auto"
        /\ ent[e].swing_mode = NONE
        /\ hist[e].applied.vol = "auto"

\* C3: when the POST of a command fails (a transport error, or a response
\* that is no settings object), the command raises to its caller and the
\* entity's fields are what they were before the command.
C3_FailedCommandLeavesState ==
    [][\A e \in Appliances :
          (Returns(e) /\ ~ValidResponse(e)) =>
              /\ cmdResult'[e] = "raised"
              /\ ent'[e] = ent[e]]_vars

\* C4: a refresh whose fetch fails changes neither the cached State nor any
\* entity's fields, and every caller of it receives the failure.
C4_FailedRefreshLeavesCache ==
    [][(refresh.inflight /\ ~refresh'.inflight
          /\ (~refresh.net[1] \/ ~refresh.net[2])) =>
              /\ data' = data
              /\ ent' = ent
              /\ \A c \in refresh.awaiting : got'[c] = [kind |-> "RefreshError"]]_vars

C4_Witness ==
    /\ Completed
    /\ ~refresh.net[2]
    /\ Forced # {}
    /\ \A c \in refresh.awaiting : got[c] = [kind |-> "RefreshError"]
    /\ data # EmptyCache

\* A command of e is called in this step.
Calls(e) == pending[e] = NoPending /\ pending'[e] # NoPending

\* C5: async_set_hvac_mode(m), m not off, sends the temperature last
\* reported while in mode m if there is one; otherwise the default of m
\* (cool 28, heat 20) if it has one; otherwise no temperature.
C5_RememberedTemperature ==
    [][\A e \in Appliances :
          (Calls(e) /\ pending'[e].cmd.kind = "hvac_mode"
                    /\ pending'[e].cmd.arg # "off") =>
              LET arg == pending'[e].cmd.arg
                  m == MODE_HA_TO_REMO[arg]
                  r == hist[e].remembered
                  body == pending'[e].body
              IN  IF r[m] # NONE
                  THEN body = [operation_mode |-> m, temperature |-> r[m]]
                  ELSE IF arg = "cool"
                  THEN body = [operation_mode |-> m, temperature |-> "28"]
                  ELSE IF arg = "heat"
                  THEN body = [operation_mode |-> m, temperature |-> "20"]
                  ELSE body = [operation_mode |-> m]]_vars

C5_Witness ==
    \E e \in Appliances :
        /\ pending[e] # NoPending
        /\ pending[e].cmd = [kind |-> "hvac_mode", arg |-> "cool"]
        /\ pending[e].body = [operation_mode |-> "cool", temperature |-> "26.5"]

\* C6: every entity registered as a listener before a forced refresh is
\* requested is invoked exactly once for that refresh when it succeeds, and
\* has been invoked by the time the caller receives the result.
C6_ListenersInvokedOnce ==
    /\ \A e \in Appliances : invoked[e] <= 1
    /\ \A c \in Forced :
          got[c].kind = "state" => \A e \in refresh.regAtStart : invoked[e] = 1

C6_Witness ==
    /\ Completed
    /\ \E c \in Forced : got[c].kind = "state"
    /\ refresh.regAtStart = Appliances

\* C7: setup validation reports a transport failure of the auth check as
\* cannot_connect, a non-200 response as invalid_auth, any other exception
\* as unknown, and creates the entry exactly when the check succeeded; a
\* failure shows the form again.
C7_SetupOutcomes ==
    flow.net # "none" =>
        /\ flow.net = "transport" => flow.errors = "cannot_connect"
        /\ flow.net = "non200" => flow.errors = "invalid_auth"
        /\ flow.net = "bad_json" => flow.errors = "unknown"
        /\ flow.entry <=> flow.net = "ok"
        /\ ~flow.entry => flow.form

\* C8: what an entity exposes about its device is what the current cache
\* holds for the device id the entity retained.
C8_AdaptersReadCurrentCache ==
    \A e \in DOMAIN ent :
        ent[e].device.id \in DOMAIN data.devices =>
            device_info(ent[e]) = DeviceInfoOf(data.devices[ent[e].device.id])

\* What an entity shows of its appliance.
Shown(self) ==
    [hvac_mode |-> self.hvac_mode, target_temperature |-> self.target_temperature,
     fan_mode |-> self.fan_mode, swing_mode |-> self.swing_mode]

\* C9: for an appliance id absent from the latest snapshot the lookup of the
\* refresh callback fails, and the entity does not go on showing the removed
\* appliance's old settings.
C9_RemovedIdNotShown ==
    \A e \in listeners :
        e \notin DOMAIN data.appliances =>
            /\ _update_callback(ent[e], data).raised
            /\ Shown(ent[e]) =
                  [hvac_mode |-> NONE, target_temperature |-> {},
                   fan_mode |-> NONE, swing_mode |-> NONE]

\* C10: hvac_mode is off exactly when the settings last applied have
\* button = power-off, and otherwise it is the HA mode of the stored
\* underlying mode.
C10_HvacModeFromStoredMode ==
    \A e \in DOMAIN ent :
        LET s == hist[e].applied
        IN  /\ ent[e].hvac_mode = "off" <=>
                  ("button" \in DOMAIN s /\ s.button = "power-off")
            /\ ent[e].hvac_mode # "off" =>
                  ent[e].hvac_mode = MODE_REMO_TO_HA[ent[e].remo_mode]

\* The settings an entity holds of its appliance.
Held(self) ==
    [remo_mode |-> self.remo_mode, hvac_mode |-> self.hvac_mode,
     target_temperature |-> self.target_temperature,
     last_target_temperature |-> self.last_target_temperature,
     fan_mode |-> self.fan_mode, swing_mode |-> self.swing_mode]

\* The response of e's last command was applied, and what e holds is what
\* the vendor now has for the appliance.
CommandApplied(e) ==
    /\ cmdResult[e] = "ok"
    /\ pending[e] = NoPending
    /\ remote.appliances[e].present
    /\ hist[e].applied = remote.appliances[e].settings

\* C12: once the response of a command is applied to the entity, the
\* completion of a refresh does not replace the entity's settings by the
\* older ones its fetch took before the command took effect.
C12_RefreshNeverAppliesOlder ==
    [][\A e \in Appliances :
          (CommandApplied(e) /\ refresh.inflight /\ ~refresh'.inflight) =>
              Held(ent'[e]) = Held(ent[e])]_vars

\* The list the properties were last read of: the truthy entries of the
\* read mode's list, as numbers in hundredths.
ReadList ==
    LET kept == SelectSeq(ac.modes[props.mode].temp, LAMBDA x : x # "")
    IN  [i \in 1..Len(kept) |-> Float100(kept[i])]

\* min_temp and max_temp are the least and the greatest entry, 0 and 0 of
\* an empty list.
RangeExtremes ==
    LET l == ReadList
        vals == {l[i] : i \in 1..Len(l)}
    IN  IF vals = {}
        THEN props.min_temp = 0 /\ props.max_temp = 0
        ELSE /\ props.min_temp \in vals /\ \A v \in vals : props.min_temp <= v
             /\ props.max_temp \in vals /\ \A v \in vals : props.max_temp >= v

\* C11 as stated: the step is the difference of the first two entries when
\* that difference is exactly 1.0 or 0.5, and 1 in every other case; min and
\* max are the extremes of the list, both 0 when it is empty.
C11_StepExactDifference ==
    props.kind = "read" =>
        LET l == ReadList
        IN  /\ props.step = (IF Len(l) >= 2 /\ (l[2] - l[1]) \in {100, 50}
                             THEN l[2] - l[1] ELSE 100)
            /\ RangeExtremes

\* C11 as amended: the step is 0.5 when the difference of the first two
\* entries is 0.5 once rounded to one decimal (above 0.45, below 0.55), and
\* 1 in every other case; min and max are the extremes of the list, both 0
\* when it is empty.
C11_StepRoundedDifference ==
    props.kind = "read" =>
        LET l == ReadList
        IN  /\ props.step = (IF Len(l) >= 2 /\ l[2] - l[1] > 45 /\ l[2] - l[1] < 55
                             THEN 50 ELSE 100)
            /\ RangeExtremes

C11_Witness ==
    /\ props.kind = "read"
    /\ props.mode = "cool"
    /\ Len(ReadList) = 3
    /\ ReadList[2] - ReadList[1] = 54
    /\ props.step = 50
    /\ props.min_temp = 1600
    /\ props.max_temp = 1800

====
